---- MODULE Spec2Model ----
(***************************************************************************)
(* Asynchronous document verification and anchoring pipeline of the       *)
(* DocuChain server: the submit route (POST /api/documents/verify), the    *)
(* retry route (POST /api/documents/:id/retry), the delete route and the   *)
(* in-memory document repository they write to.  Every await of a timer   *)
(* or of an external service is a point where other handlers interleave,   *)
(* so each background attempt advances one external call per step.         *)
(***************************************************************************)
EXTENDS Integers, Sequences, FiniteSets, TLC

\* Bounds of the model.
MaxDocs == 1
MaxAttempts == 3

\* JavaScript null; every nullable text field is a tuple, null the empty one.
NULL == <<>>

\* shared/schema.ts documentTypes
DocTypes == {"aadhar", "pan", "driving_license", "passport", "voter_id"}

\* What performOcr can tell from the uploaded file's name.
FileKinds == {"aadhar", "pan", "driving", "other"}

\* The submissions of this model, <<document type, uploaded file's name>>: one
\* whose text holds an identifier of its type, one whose text holds none.
Submissions == {<<"aadhar", "aadhar">>, <<"passport", "other">>}

MinOcrLength == 10

Terminal == {"verified", "invalid", "error"}

\* The documentId the verify route creates a record with: the column is not
\* nullable, so this text stands for "no identifier yet".
PendingDocumentId == <<"pending-verification">>

VARIABLES
    documents,          \* MemStorage.documents: id -> Document
    currentDocumentId,  \* MemStorage.currentDocumentId
    attempts,           \* background executions started so far, in start order
    writer,             \* history: id -> field -> attempt that last wrote it (0: create)
    response,           \* the HTTP response of the last request handled
    validation          \* a call of validateDocument on its own: input and result

vars == <<documents, currentDocumentId, attempts, writer, response, validation>>

Fields == {"documentId", "status", "ipfsHash", "blockchainTxId", "errorDetails"}

----------------------------------------------------------------------------
\* server/lib/documentAi.ts

\* The text performOcr returns for a file: its length; per document type, the
\* token the type's identifier pattern matches in it (NULL: no match); what
\* the expiry pattern finds in it ("none", or a date that is "past" or
\* "future" on the server's clock: the two dates of the fixed texts, in 2030
\* and 2027, are taken as future); the document types whose phrase test it
\* passes.
performOcr(file) ==
    CASE file = "aadhar" ->
           [len |-> 153,
            ids |-> [t \in DocTypes |->
                        IF t = "aadhar" THEN <<"1234 5678 9012">> ELSE NULL],
            expiry |-> "none", phrases |-> {"aadhar"}]
      [] file = "pan" ->
           [len |-> 144,
            ids |-> [t \in DocTypes |->
                        IF t = "pan" THEN <<"ABCPK1234Z">> ELSE NULL],
            expiry |-> "none", phrases |-> {"pan"}]
      [] file = "driving" ->
           [len |-> 139,
            ids |-> [t \in DocTypes |->
                        IF t = "driving_license" THEN <<"DL-0123456789">> ELSE NULL],
            expiry |-> "future", phrases |-> {"driving_license"}]
      [] OTHER ->
           [len |-> 88, ids |-> [t \in DocTypes |-> NULL],
            expiry |-> "future", phrases |-> {}]

extractDocumentId(ocrText, documentType) == ocrText.ids[documentType]

\* A random identifier of the type's format; nonce stands for the random draw.
generateDocumentId(documentType, nonce) == <<"generated", documentType, nonce>>

UnreadableReason ==
    "Could not clearly read document text. Please ensure good lighting and clear image quality."

\* validateDocument with the length check left out.
validateDocumentNoLengthCheck(ocrText, documentType, nonce) ==
    IF extractDocumentId(ocrText, documentType) = NULL
    THEN [isValid |-> TRUE,
          documentId |-> generateDocumentId(documentType, nonce),
          reasons |-> <<>>]
    ELSE [isValid |-> TRUE,
          documentId |-> extractDocumentId(ocrText, documentType),
          reasons |-> <<>>]

\* validateDocument with the length comparison the wrong way round.
validateDocumentLengthInverted(ocrText, documentType, nonce) ==
    IF ocrText.len >= MinOcrLength
    THEN [isValid |-> FALSE, documentId |-> NULL,
          reasons |-> <<UnreadableReason>>]
    ELSE validateDocumentNoLengthCheck(ocrText, documentType, nonce)

\* The length check returns at once with its reason; a text without an
\* identifier returns valid with a generated one; the expiry check and the
\* per-type phrase checks only log, so reasons is still empty at the end.
validateDocument(ocrText, documentType, nonce) ==
    IF ocrText.len < MinOcrLength
    THEN [isValid |-> FALSE, documentId |-> NULL,
          reasons |-> <<UnreadableReason>>]
    ELSE IF extractDocumentId(ocrText, documentType) = NULL
    THEN [isValid |-> TRUE,
          documentId |-> generateDocumentId(documentType, nonce),
          reasons |-> <<>>]
    ELSE LET afterExpiry == IF ocrText.expiry = "past" THEN <<>> ELSE <<>>
             reasons == IF documentType \notin ocrText.phrases
                        THEN afterExpiry ELSE afterExpiry
         IN  [isValid |-> reasons = <<>>,
              documentId |-> IF reasons = <<>>
                             THEN extractDocumentId(ocrText, documentType)
                             ELSE NULL,
              reasons |-> reasons]

\* reasons.join(', ')
RECURSIVE Join(_)
Join(reasons) ==
    IF Len(reasons) <= 1 THEN reasons
    ELSE <<Head(reasons), ", ">> \o Join(Tail(reasons))

\* processAndVerifyDocument's return value for a validation result.
VerificationResult(validationResult) ==
    IF validationResult.isValid
    THEN [isValid |-> TRUE, documentId |-> validationResult.documentId,
          errorDetails |-> NULL]
    ELSE [isValid |-> FALSE, documentId |-> NULL,
          errorDetails |-> Join(validationResult.reasons)]

\* Texts an OCR engine can hand to validateDocument: long and short ones,
\* with the identifier of at most one document type, with or without an
\* expiry date, with or without the phrases of the document types.  A text of
\* fewer than 10 characters has room for a passport number at most.
TokenOf(t) == <<"token", t>>

TextLengths == {3, 9, 40, 153}

Texts ==
    {text \in [len : TextLengths,
               ids : {[t \in DocTypes |-> IF t = k THEN TokenOf(t) ELSE NULL] :
                         k \in DocTypes \cup {"none"}},
               expiry : {"none", "past", "future"},
               phrases : {{}, DocTypes}] :
        text.len < MinOcrLength =>
            /\ text.expiry = "none"
            /\ text.phrases = {}
            /\ \A t \in DocTypes :
                  text.ids[t] # NULL => (t = "passport" /\ text.len = 9)}

\* No call of validateDocument under examination.
NoResult == [isValid |-> FALSE, documentId |-> NULL, reasons |-> <<>>]

NoValidation ==
    [called |-> FALSE, ocrText |-> performOcr("other"), documentType |-> "aadhar",
     result |-> NoResult, verification |-> VerificationResult(NoResult)]

----------------------------------------------------------------------------
\* server/storage.ts, MemStorage

createDocument(id, insertDocument) ==
    [id |-> id,
     userId |-> insertDocument.userId,
     documentType |-> insertDocument.documentType,
     documentId |-> insertDocument.documentId,
     status |-> insertDocument.status,
     ipfsHash |-> insertDocument.ipfsHash,
     blockchainTxId |-> insertDocument.blockchainTxId,
     errorDetails |-> insertDocument.errorDetails,
     metadata |-> insertDocument.metadata]

\* An update that stores a record under an id it does not find (an upsert).
updateDocumentUpsert(docs, id, documentUpdate) ==
    LET base == IF id \in DOMAIN docs THEN docs[id]
                ELSE createDocument(id,
                         [userId |-> 1, documentType |-> "aadhar",
                          documentId |-> NULL, status |-> "pending",
                          ipfsHash |-> NULL, blockchainTxId |-> NULL,
                          errorDetails |-> NULL, metadata |-> NULL])
    IN (id :> [f \in DOMAIN base |->
                  IF f \in DOMAIN documentUpdate THEN documentUpdate[f]
                  ELSE base[f]]) @@ docs

\* { ...document, ...documentUpdate }; an unknown id is left alone.
updateDocument(docs, id, documentUpdate) ==
    IF id \notin DOMAIN docs THEN docs
    ELSE [docs EXCEPT ![id] =
             [f \in DOMAIN docs[id] |->
                 IF f \in DOMAIN documentUpdate THEN documentUpdate[f]
                 ELSE docs[id][f]]]

\* A delete that keeps the record and marks it, a tombstone.
deleteDocumentTombstone(docs, id) == updateDocument(docs, id, [status |-> "deleted"])

deleteDocument(docs, id) == [i \in (DOMAIN docs) \ {id} |-> docs[i]]

\* this.documents.get(id); NULL stands for undefined.
getDocument(docs, id) == IF id \in DOMAIN docs THEN docs[id] ELSE NULL

\* The user's documents.
getDocuments(docs, userId) == {docs[i] : i \in {j \in DOMAIN docs : docs[j].userId = userId}}

getDocumentStats(docs, userId) ==
    LET userDocuments == getDocuments(docs, userId) IN
    [verifiedCount |-> Cardinality({d \in userDocuments : d.status = "verified"}),
     pendingFailedCount |->
         Cardinality({d \in userDocuments :
                         d.status = "invalid" \/ d.status = "pending"}),
     storageUsed |-> Cardinality(userDocuments) * 5]

\* History of updateDocument: attempt a wrote the fields of documentUpdate.
Wrote(w, id, documentUpdate, a) ==
    IF id \notin DOMAIN w THEN w
    ELSE [w EXCEPT ![id] =
             [f \in Fields |-> IF f \in DOMAIN documentUpdate THEN a ELSE w[id][f]]]

----------------------------------------------------------------------------
\* The partial documents the routes hand to storage.updateDocument.

\* A faulty success update that sets the status alone, as the older
\* updateDocumentStatus(id, status) did.
VerifiedUpdateStatusOnly(documentId, ipfsHash, blockchainTxId) ==
    [documentId |-> documentId, status |-> "verified"]

\* verify route, success
VerifiedUpdate(documentId, ipfsHash, blockchainTxId) ==
    [documentId |-> documentId, status |-> "verified",
     ipfsHash |-> ipfsHash, blockchainTxId |-> blockchainTxId]

\* verify route, verificationResult.isValid is false
InvalidUpdate(errorDetails) ==
    [status |-> "invalid", errorDetails |-> errorDetails]

\* A faulty catch that reports the exception as a validation failure.
ErrorUpdateAsInvalid(message) ==
    [status |-> "invalid", errorDetails |-> <<"Processing error: ", message>>]

\* verify route, catch
ErrorUpdate(message) ==
    [status |-> "error", errorDetails |-> <<"Processing error: ", message>>]

\* retry route, reset
PendingUpdate == [status |-> "pending", errorDetails |-> NULL]

\* retry route, success
RetryVerifiedUpdate(documentId, ipfsHash, blockchainTxId) ==
    [status |-> "verified", documentId |-> documentId, ipfsHash |-> ipfsHash,
     blockchainTxId |-> blockchainTxId, errorDetails |-> NULL]

\* retry route, catch
RetryErrorUpdate(message) ==
    [status |-> "error", errorDetails |-> <<"Retry processing error: ", message>>]

\* The messages of the errors the external calls throw.
ProcessImageError == "Failed to process image"
UploadToIpfsError == "Failed to upload document to IPFS"
StoreOnBlockchainError == "Failed to store document on blockchain"

\* What uploadToIpfs and storeOnBlockchain return: a random string, different
\* for every call; the attempt that made the call stands for the random draw.
IpfsHashOf(a) == <<"Qm", a>>
TxHashOf(a) == <<"0x", a>>
\* retry route: DOC-<random>, ipfs-<random>
RetryDocumentIdOf(a) == <<"DOC-", a>>
RetryIpfsHashOf(a) == <<"ipfs-", a>>

----------------------------------------------------------------------------
\* Background executions.

\* from: the document's status when the request that started the attempt
\* arrived; steps: the calls made so far; thrown: the message of the error
\* that ended it; result, errorDetails: what it handed to updateDocument.
NewAttempt(id, route, from, documentType, file, pc) ==
    [doc |-> id, route |-> route, from |-> from, documentType |-> documentType,
     file |-> file, pc |-> pc, documentId |-> NULL, ipfsHash |-> NULL,
     steps |-> <<>>, thrown |-> NULL, result |-> "none", errorDetails |-> NULL,
     upload |-> route = "verify", processed |-> FALSE]

InFlight(a) == attempts[a].pc # "done"

InFlightFor(id) == {a \in DOMAIN attempts : attempts[a].doc = id /\ InFlight(a)}

\* Attempt a ends after the calls given: it hands documentUpdate to
\* storage.updateDocument, and the verify route's finally block unlinks the
\* uploaded file (the unlink call is taken as the release).  processed tells
\* whether the copy written by processImage is left on disk.
FinishLeaving(a, calls, thrown, documentUpdate, processed) ==
    LET id == attempts[a].doc IN
    /\ documents' = updateDocument(documents, id, documentUpdate)
    /\ writer' = Wrote(writer, id, documentUpdate, a)
    /\ attempts' = [attempts EXCEPT
           ![a].pc = "done",
           ![a].steps = @ \o calls,
           ![a].thrown = thrown,
           ![a].result = documentUpdate.status,
           ![a].errorDetails =
               IF "errorDetails" \in DOMAIN documentUpdate
               THEN documentUpdate.errorDetails ELSE NULL,
           ![a].upload = FALSE,
           ![a].processed = processed]
    /\ UNCHANGED <<currentDocumentId, response, validation>>

Finish(a, calls, thrown, documentUpdate) ==
    FinishLeaving(a, calls, thrown, documentUpdate, attempts[a].processed)

Init ==
    /\ documents = <<>>
    /\ currentDocumentId = 1
    /\ attempts = <<>>
    /\ writer = <<>>
    /\ response = [route |-> "none", code |-> 0, documentId |-> 0]
    /\ validation = NoValidation

\* The verify route awaiting the first pipeline step before it responds.
SubmitBlocking(documentType, file) ==
    /\ currentDocumentId <= MaxDocs
    /\ Len(attempts) < MaxAttempts
    /\ LET id == currentDocumentId IN
       /\ documents' = (id :> createDocument(id,
              [userId |-> 1, documentType |-> documentType,
               documentId |-> PendingDocumentId, status |-> "pending",
               ipfsHash |-> NULL, blockchainTxId |-> NULL,
               errorDetails |-> NULL, metadata |-> NULL])) @@ documents
       /\ currentDocumentId' = id + 1
       /\ writer' = (id :> [f \in Fields |-> 0]) @@ writer
       /\ response' = [route |-> "verify", code |-> 200, documentId |-> id]
       /\ attempts' = Append(attempts,
              [NewAttempt(id, "verify", "none", documentType, file, "performOcr")
                  EXCEPT !.steps = <<"processImage">>])
       /\ UNCHANGED validation

\* A createDocument that hands out the lowest id not in use.
SubmitReusingId(limit, documentType, file) ==
    /\ (1..limit) \ DOMAIN documents # {}
    /\ Len(attempts) < MaxAttempts
    /\ LET id == CHOOSE i \in (1..limit) \ DOMAIN documents :
                     \A j \in (1..limit) \ DOMAIN documents : i <= j IN
       /\ documents' = (id :> createDocument(id,
              [userId |-> 1, documentType |-> documentType,
               documentId |-> PendingDocumentId, status |-> "pending",
               ipfsHash |-> NULL, blockchainTxId |-> NULL,
               errorDetails |-> NULL, metadata |-> NULL])) @@ documents
       /\ currentDocumentId' = currentDocumentId + 1
       /\ writer' = (id :> [f \in Fields |-> 0]) @@ writer
       /\ response' = [route |-> "verify", code |-> 200, documentId |-> id]
       /\ attempts' = Append(attempts,
              NewAttempt(id, "verify", "none", documentType, file, "processImage"))
       /\ UNCHANGED validation

\* POST /api/documents/verify with a file and a document type: the record is
\* created pending, the response is sent, the background processing starts.
\* The model stops creating once the id counter has passed limit.
SubmitWithin(limit, documentType, file) ==
    /\ currentDocumentId <= limit
    /\ Len(attempts) < MaxAttempts
    /\ LET id == currentDocumentId IN
       /\ documents' = (id :> createDocument(id,
              [userId |-> 1, documentType |-> documentType,
               documentId |-> PendingDocumentId, status |-> "pending",
               ipfsHash |-> NULL, blockchainTxId |-> NULL,
               errorDetails |-> NULL, metadata |-> NULL])) @@ documents
       /\ currentDocumentId' = id + 1
       /\ writer' = (id :> [f \in Fields |-> 0]) @@ writer
       /\ response' = [route |-> "verify", code |-> 200, documentId |-> id]
       /\ attempts' = Append(attempts,
              NewAttempt(id, "verify", "none", documentType, file, "processImage"))
       /\ UNCHANGED validation

Submit(documentType, file) == SubmitWithin(MaxDocs, documentType, file)

\* processAndVerifyDocument, step 1: processImage, which reads the uploaded
\* file and writes a copy of it.  When it throws (here: readFile rejects, no
\* copy exists), processAndVerifyDocument catches and returns isValid false,
\* and the route takes its else branch.
VerifyProcessImage(a, ok) ==
    /\ a \in DOMAIN attempts
    /\ attempts[a].route = "verify"
    /\ attempts[a].pc = "processImage"
    /\ IF ok
       THEN /\ attempts' = [attempts EXCEPT ![a].pc = "performOcr",
                                            ![a].steps = Append(@, "processImage"),
                                            ![a].processed = TRUE]
            /\ UNCHANGED <<documents, currentDocumentId, writer, response, validation>>
       ELSE Finish(a, <<"processImage">>, <<ProcessImageError>>,
                InvalidUpdate(<<"Error processing document: ", "Error: ",
                                ProcessImageError>>))

\* processAndVerifyDocument, steps 2 and 3: performOcr, then validateDocument.
VerifyPerformOcr(a) ==
    /\ a \in DOMAIN attempts
    /\ attempts[a].route = "verify"
    /\ attempts[a].pc = "performOcr"
    /\ LET validationResult ==
               validateDocument(performOcr(attempts[a].file),
                                attempts[a].documentType, a)
       IN IF validationResult.isValid
          THEN /\ attempts' = [attempts EXCEPT
                      ![a].pc = "uploadToIpfs",
                      ![a].steps = @ \o <<"performOcr", "validateDocument">>,
                      ![a].documentId = validationResult.documentId,
                      ![a].processed = FALSE]
               /\ UNCHANGED <<documents, currentDocumentId, writer, response, validation>>
          ELSE FinishLeaving(a, <<"performOcr", "validateDocument">>, NULL,
                             InvalidUpdate(Join(validationResult.reasons)), FALSE)

\* verify route: uploadToIpfs
VerifyUploadToIpfs(a, ok) ==
    /\ a \in DOMAIN attempts
    /\ attempts[a].route = "verify"
    /\ attempts[a].pc = "uploadToIpfs"
    /\ IF ok
       THEN /\ attempts' = [attempts EXCEPT ![a].pc = "storeOnBlockchain",
                                            ![a].steps = Append(@, "uploadToIpfs"),
                                            ![a].ipfsHash = IpfsHashOf(a)]
            /\ UNCHANGED <<documents, currentDocumentId, writer, response, validation>>
       ELSE Finish(a, <<"uploadToIpfs">>, <<UploadToIpfsError>>,
                   ErrorUpdate(UploadToIpfsError))

\* verify route: storeOnBlockchain, then the update with the results
VerifyStoreOnBlockchain(a, ok) ==
    /\ a \in DOMAIN attempts
    /\ attempts[a].route = "verify"
    /\ attempts[a].pc = "storeOnBlockchain"
    /\ IF ok
       THEN Finish(a, <<"storeOnBlockchain">>, NULL,
                VerifiedUpdate(attempts[a].documentId, attempts[a].ipfsHash,
                               TxHashOf(a)))
       ELSE Finish(a, <<"storeOnBlockchain">>, <<StoreOnBlockchainError>>,
                   ErrorUpdate(StoreOnBlockchainError))

\* The retry route without its lookup of the document: it answers 200 and
\* starts the background processing for any id.
RetryWithoutLookup(id) ==
    /\ Len(attempts) < MaxAttempts
    /\ LET a == Len(attempts) + 1
           known == id \in DOMAIN documents
       IN  /\ documents' = updateDocument(documents, id, PendingUpdate)
           /\ writer' = IF known THEN Wrote(writer, id, PendingUpdate, a) ELSE writer
           /\ response' = [route |-> "retry", code |-> 200, documentId |-> id]
           /\ attempts' = Append(attempts,
                  NewAttempt(id, "retry",
                             IF known THEN documents[id].status ELSE "none",
                             IF known THEN documents[id].documentType ELSE "none",
                             "none", "setTimeout"))
           /\ UNCHANGED <<currentDocumentId, validation>>

\* POST /api/documents/:id/retry
Retry(id) ==
    /\ Len(attempts) < MaxAttempts
    /\ IF id \notin DOMAIN documents
       THEN /\ response' = [route |-> "retry", code |-> 404, documentId |-> id]
            /\ UNCHANGED <<documents, currentDocumentId, attempts, writer, validation>>
       ELSE LET a == Len(attempts) + 1 IN
            /\ documents' = updateDocument(documents, id, PendingUpdate)
            /\ writer' = Wrote(writer, id, PendingUpdate, a)
            /\ response' = [route |-> "retry", code |-> 200, documentId |-> id]
            /\ attempts' = Append(attempts,
                   NewAttempt(id, "retry", documents[id].status,
                              documents[id].documentType, "none",
                              "setTimeout"))
            /\ UNCHANGED <<currentDocumentId, validation>>

\* retry route: the 2 s timer ends, the mock verification data is generated
RetryTimeout(a) ==
    /\ a \in DOMAIN attempts
    /\ attempts[a].route = "retry"
    /\ attempts[a].pc = "setTimeout"
    /\ attempts' = [attempts EXCEPT ![a].pc = "storeOnBlockchain",
                                    ![a].documentId = RetryDocumentIdOf(a),
                                    ![a].ipfsHash = RetryIpfsHashOf(a)]
    /\ UNCHANGED <<documents, currentDocumentId, writer, response, validation>>

\* retry route: storeOnBlockchain, then the update
RetryStoreOnBlockchain(a, ok) ==
    /\ a \in DOMAIN attempts
    /\ attempts[a].route = "retry"
    /\ attempts[a].pc = "storeOnBlockchain"
    /\ IF ok
       THEN Finish(a, <<"storeOnBlockchain">>, NULL,
                RetryVerifiedUpdate(attempts[a].documentId, attempts[a].ipfsHash,
                                    TxHashOf(a)))
       ELSE Finish(a, <<"storeOnBlockchain">>, <<StoreOnBlockchainError>>,
                   RetryErrorUpdate(StoreOnBlockchainError))

\* DELETE /api/documents/:id
Delete(id) ==
    /\ IF id \in DOMAIN documents
       THEN /\ documents' = deleteDocument(documents, id)
            /\ writer' = deleteDocument(writer, id)
            /\ response' = [route |-> "delete", code |-> 200, documentId |-> id]
       ELSE /\ response' = [route |-> "delete", code |-> 404, documentId |-> id]
            /\ UNCHANGED <<documents, writer>>
    /\ UNCHANGED <<currentDocumentId, attempts, validation>>

Next ==
    \/ \E s \in Submissions : Submit(s[1], s[2])
    \/ \E a \in 1..MaxAttempts, ok \in BOOLEAN : VerifyProcessImage(a, ok)
    \/ \E a \in 1..MaxAttempts : VerifyPerformOcr(a)
    \/ \E a \in 1..MaxAttempts, ok \in BOOLEAN : VerifyUploadToIpfs(a, ok)
    \/ \E a \in 1..MaxAttempts, ok \in BOOLEAN : VerifyStoreOnBlockchain(a, ok)
    \/ \E id \in 1..MaxDocs : Retry(id)
    \/ \E a \in 1..MaxAttempts : RetryTimeout(a)
    \/ \E a \in 1..MaxAttempts, ok \in BOOLEAN : RetryStoreOnBlockchain(a, ok)
    \/ \E id \in 1..MaxDocs : Delete(id)

Spec == Init /\ [][Next]_vars

\* One step of the background execution a: a timer that fires or an external
\* call that settles.  The runtime's event loop resumes every pending
\* continuation, so each execution that can step eventually does.
StepOf(a) ==
    \/ \E ok \in BOOLEAN : VerifyProcessImage(a, ok)
    \/ VerifyPerformOcr(a)
    \/ \E ok \in BOOLEAN : VerifyUploadToIpfs(a, ok)
    \/ \E ok \in BOOLEAN : VerifyStoreOnBlockchain(a, ok)
    \/ RetryTimeout(a)
    \/ \E ok \in BOOLEAN : RetryStoreOnBlockchain(a, ok)

\* The verify route on its own, for every document type and every kind of
\* file, with no retry and no delete request.
AllSubmissions == DocTypes \X FileKinds

VerifyNext ==
    \/ \E s \in AllSubmissions : Submit(s[1], s[2])
    \/ \E a \in 1..MaxAttempts, ok \in BOOLEAN : VerifyProcessImage(a, ok)
    \/ \E a \in 1..MaxAttempts : VerifyPerformOcr(a)
    \/ \E a \in 1..MaxAttempts, ok \in BOOLEAN : VerifyUploadToIpfs(a, ok)
    \/ \E a \in 1..MaxAttempts, ok \in BOOLEAN : VerifyStoreOnBlockchain(a, ok)

VerifySpec ==
    Init /\ [][VerifyNext]_vars /\ \A a \in 1..MaxAttempts : WF_vars(StepOf(a))

----------------------------------------------------------------------------
\* The verify route on a disk whose writes can fail.

\* processImage throws because writeFile rejects after it has created the
\* copy (a full disk, an i/o error): the copy stays on disk.
ProcessImageWriteFails(a) ==
    /\ a \in DOMAIN attempts
    /\ attempts[a].route = "verify"
    /\ attempts[a].pc = "processImage"
    /\ FinishLeaving(a, <<"processImage">>, <<ProcessImageError>>,
           InvalidUpdate(<<"Error processing document: ", "Error: ",
                           ProcessImageError>>),
           TRUE)

DiskNext ==
    \/ VerifyNext
    \/ \E a \in 1..MaxAttempts : ProcessImageWriteFails(a)

DiskSpec == Init /\ [][DiskNext]_vars

----------------------------------------------------------------------------
\* The read routes and the rejected submissions, which start no background
\* processing.

\* GET /api/stats
GetStats ==
    /\ response' = [route |-> "stats", code |-> 200, documentId |-> 0,
                    body |-> getDocumentStats(documents, 1)]
    /\ UNCHANGED <<documents, currentDocumentId, attempts, writer, validation>>

\* GET /api/documents
GetDocuments ==
    /\ response' = [route |-> "list", code |-> 200, documentId |-> 0,
                    body |-> getDocuments(documents, 1)]
    /\ UNCHANGED <<documents, currentDocumentId, attempts, writer, validation>>

\* A GET by id that writes the record back with its errorDetails cleared.
GetDocumentNormalising(id) ==
    /\ response' = IF getDocument(documents, id) = NULL
                   THEN [route |-> "get", code |-> 404, documentId |-> id]
                   ELSE [route |-> "get", code |-> 200, documentId |-> id,
                         body |-> getDocument(documents, id)]
    /\ documents' = updateDocument(documents, id, [errorDetails |-> NULL])
    /\ UNCHANGED <<currentDocumentId, attempts, writer, validation>>

\* GET /api/documents/:id
GetDocument(id) ==
    /\ response' = IF getDocument(documents, id) = NULL
                   THEN [route |-> "get", code |-> 404, documentId |-> id]
                   ELSE [route |-> "get", code |-> 200, documentId |-> id,
                         body |-> getDocument(documents, id)]
    /\ UNCHANGED <<documents, currentDocumentId, attempts, writer, validation>>

\* A verify route that creates the pending record before it looks at the
\* request.
SubmitMalformedCreating(missing) ==
    /\ currentDocumentId <= MaxDocs
    /\ documents' = (currentDocumentId :> createDocument(currentDocumentId,
           [userId |-> 1, documentType |-> "aadhar",
            documentId |-> PendingDocumentId, status |-> "pending",
            ipfsHash |-> NULL, blockchainTxId |-> NULL,
            errorDetails |-> NULL, metadata |-> NULL])) @@ documents
    /\ currentDocumentId' = currentDocumentId + 1
    /\ writer' = (currentDocumentId :> [f \in Fields |-> 0]) @@ writer
    /\ response' = [route |-> "verify", code |-> 400, documentId |-> 0,
                    missing |-> missing]
    /\ UNCHANGED <<attempts, validation>>

\* POST /api/documents/verify without a file or without a document type.
SubmitMalformed(missing) ==
    /\ response' = [route |-> "verify", code |-> 400, documentId |-> 0,
                    missing |-> missing]
    /\ UNCHANGED <<documents, currentDocumentId, attempts, writer, validation>>

\* The submissions with their first background processing, the deletes, the
\* reads and the rejected submissions.
ApiNext ==
    \/ \E s \in Submissions : Submit(s[1], s[2])
    \/ \E a \in 1..MaxAttempts, ok \in BOOLEAN : VerifyProcessImage(a, ok)
    \/ \E a \in 1..MaxAttempts : VerifyPerformOcr(a)
    \/ \E a \in 1..MaxAttempts, ok \in BOOLEAN : VerifyUploadToIpfs(a, ok)
    \/ \E a \in 1..MaxAttempts, ok \in BOOLEAN : VerifyStoreOnBlockchain(a, ok)
    \/ \E id \in 1..MaxDocs : Delete(id)
    \/ GetStats
    \/ GetDocuments
    \/ \E id \in 1..MaxDocs : GetDocument(id)
    \/ \E missing \in {"file", "documentType"} : SubmitMalformed(missing)

ApiSpec == Init /\ [][ApiNext]_vars

----------------------------------------------------------------------------
\* Submissions and deletes over more ids than documents are kept, so that a
\* record is created after another one was deleted.

MaxIds == MaxDocs + 1

IdNext ==
    \/ \E s \in Submissions : SubmitWithin(MaxIds, s[1], s[2])
    \/ \E a \in 1..MaxAttempts, ok \in BOOLEAN : VerifyProcessImage(a, ok)
    \/ \E a \in 1..MaxAttempts : VerifyPerformOcr(a)
    \/ \E a \in 1..MaxAttempts, ok \in BOOLEAN : VerifyUploadToIpfs(a, ok)
    \/ \E a \in 1..MaxAttempts, ok \in BOOLEAN : VerifyStoreOnBlockchain(a, ok)
    \/ \E id \in 1..MaxIds : Delete(id)

IdSpec == Init /\ [][IdNext]_vars

----------------------------------------------------------------------------
\* The routes over PgStorage (DATABASE_URL set), whose updateDocument is a
\* database query that can throw.

RepositoryError == "database unavailable"

\* The anchor call of attempt a succeeds and the update that follows throws.
\* The catch block then tries its own update (status error), which either
\* goes through or throws too; that second exception is only logged.
UpdateDocumentThrows(a, fallbackOk) ==
    /\ a \in DOMAIN attempts
    /\ attempts[a].pc = "storeOnBlockchain"
    /\ IF fallbackOk
       THEN Finish(a, <<"storeOnBlockchain">>, <<RepositoryError>>,
                   IF attempts[a].route = "verify"
                   THEN ErrorUpdate(RepositoryError)
                   ELSE RetryErrorUpdate(RepositoryError))
       ELSE /\ attempts' = [attempts EXCEPT
                   ![a].pc = "done",
                   ![a].steps = Append(@, "storeOnBlockchain"),
                   ![a].thrown = <<RepositoryError>>,
                   ![a].upload = FALSE]
            /\ UNCHANGED <<documents, currentDocumentId, writer, response, validation>>

PgNext ==
    \/ Next
    \/ \E a \in 1..MaxAttempts, fallbackOk \in BOOLEAN :
          UpdateDocumentThrows(a, fallbackOk)

PgSpec == Init /\ [][PgNext]_vars

----------------------------------------------------------------------------
\* server/routes.ts with server/verificationService.ts,
\* server/blockchainService.ts and the first MemStorage of server/storage.ts:
\* the routes that verify and store within the request.  writer records, per
\* field, whether the server's verification and storage ("pipeline") or the
\* request body ("client") supplied the value.

LegacyDocTypes == {"AADHAR", "PAN", "DRIVING_LICENSE"}

VerificationStatus == {"PENDING", "VERIFIED", "FAILED"}

OwnedFields == {"verificationStatus", "ipfsHash", "blockchainRef"}

\* MemStorage.createDocument of the first storage
legacyCreateDocument(id, insertDocument) ==
    [id |-> id,
     userId |-> insertDocument.userId,
     documentType |-> insertDocument.documentType,
     documentNumber |-> insertDocument.documentNumber,
     ipfsHash |-> insertDocument.ipfsHash,
     blockchainRef |-> insertDocument.blockchainRef,
     verificationStatus |-> insertDocument.verificationStatus]

\* MemStorage.updateDocumentStatus
updateDocumentStatus(docs, id, status) ==
    IF id \notin DOMAIN docs THEN docs
    ELSE [docs EXCEPT ![id].verificationStatus = status]

\* storeOnBlockchain of blockchainService.ts never throws: it returns success
\* with both references, or success false with an error text and no reference.
legacyStoreOnBlockchain(stored, nonce) ==
    IF stored
    THEN [success |-> TRUE, ipfsHash |-> <<"Qm", nonce>>,
          blockchainRef |-> <<"0x", nonce>>]
    ELSE [success |-> FALSE, ipfsHash |-> NULL, blockchainRef |-> NULL]

\* POST /api/documents with an uploaded file: valid is the outcome of
\* verifyDocumentService, stored that of storeOnBlockchain; the empty
\* documentType is a request without one.
PostDocumentFile(documentType, valid, stored) ==
    /\ (documentType # "" /\ valid) => currentDocumentId <= MaxDocs
    /\ IF documentType = ""
       THEN /\ response' = [route |-> "create-file", code |-> 400, documentId |-> 0]
            /\ UNCHANGED <<documents, currentDocumentId, writer>>
       ELSE IF ~valid
       THEN /\ response' = [route |-> "create-file", code |-> 400, documentId |-> 0]
            /\ UNCHANGED <<documents, currentDocumentId, writer>>
       ELSE LET id == currentDocumentId
                blockchainResult == legacyStoreOnBlockchain(stored, id)
            IN  /\ documents' = (id :> legacyCreateDocument(id,
                       [userId |-> 1, documentType |-> documentType,
                        documentNumber |-> <<"number", documentType>>,
                        ipfsHash |-> blockchainResult.ipfsHash,
                        blockchainRef |-> blockchainResult.blockchainRef,
                        verificationStatus |-> "VERIFIED"])) @@ documents
                /\ currentDocumentId' = id + 1
                /\ writer' = (id :> [f \in OwnedFields |-> "pipeline"]) @@ writer
                /\ response' = [route |-> "create-file", code |-> 201, documentId |-> id]
    /\ UNCHANGED <<attempts, validation>>

\* POST /api/documents with a JSON body that passes insertDocumentSchema: the
\* record is created from the fields of the body.
PostDocumentJson(documentType, status) ==
    /\ currentDocumentId <= MaxDocs
    /\ LET id == currentDocumentId IN
       /\ documents' = (id :> legacyCreateDocument(id,
              [userId |-> 1, documentType |-> documentType,
               documentNumber |-> NULL,
               ipfsHash |-> <<"from the request body">>,
               blockchainRef |-> NULL,
               verificationStatus |-> status])) @@ documents
       /\ currentDocumentId' = id + 1
       /\ writer' = (id :> [f \in OwnedFields |-> "client"]) @@ writer
       /\ response' = [route |-> "create-json", code |-> 201, documentId |-> id]
    /\ UNCHANGED <<attempts, validation>>

\* PATCH /api/documents/:id/status with a status of the enumeration
PatchDocumentStatus(id, status) ==
    /\ IF id \notin DOMAIN documents
       THEN /\ response' = [route |-> "status", code |-> 404, documentId |-> id]
            /\ UNCHANGED <<documents, writer>>
       ELSE /\ documents' = updateDocumentStatus(documents, id, status)
            /\ writer' = [writer EXCEPT ![id].verificationStatus = "client"]
            /\ response' = [route |-> "status", code |-> 200, documentId |-> id]
    /\ UNCHANGED <<currentDocumentId, attempts, validation>>

\* DELETE /api/documents/:id of routes.ts
LegacyDelete(id) ==
    /\ IF id \in DOMAIN documents
       THEN /\ documents' = deleteDocument(documents, id)
            /\ writer' = deleteDocument(writer, id)
            /\ response' = [route |-> "delete", code |-> 204, documentId |-> id]
       ELSE /\ response' = [route |-> "delete", code |-> 404, documentId |-> id]
            /\ UNCHANGED <<documents, writer>>
    /\ UNCHANGED <<currentDocumentId, attempts, validation>>

\* GET /api/documents/:id of routes.ts
LegacyGetDocument(id) ==
    /\ response' = IF getDocument(documents, id) = NULL
                   THEN [route |-> "get", code |-> 404, documentId |-> id]
                   ELSE [route |-> "get", code |-> 200, documentId |-> id,
                         body |-> getDocument(documents, id)]
    /\ UNCHANGED <<documents, currentDocumentId, attempts, writer, validation>>

LegacyNext ==
    \/ \E id \in 1..MaxDocs : LegacyGetDocument(id)
    \/ \E documentType \in LegacyDocTypes \cup {""}, valid, stored \in BOOLEAN :
          PostDocumentFile(documentType, valid, stored)
    \/ \E documentType \in LegacyDocTypes, status \in VerificationStatus :
          PostDocumentJson(documentType, status)
    \/ \E id \in 1..MaxDocs, status \in VerificationStatus :
          PatchDocumentStatus(id, status)
    \/ \E id \in 1..MaxDocs : LegacyDelete(id)

LegacySpec == Init /\ [][LegacyNext]_vars

----------------------------------------------------------------------------
\* validateDocument on its own: any text of Texts, any document type.

ValidatorInit ==
    /\ documents = <<>>
    /\ currentDocumentId = 1
    /\ attempts = <<>>
    /\ writer = <<>>
    /\ response = [route |-> "none", code |-> 0, documentId |-> 0]
    /\ validation \in {[called |-> FALSE, ocrText |-> text, documentType |-> t,
                        result |-> NoResult,
                        verification |-> VerificationResult(NoResult)] :
                          text \in Texts, t \in DocTypes}

\* processAndVerifyDocument, step 3 and the return that follows it.
Validate ==
    /\ ~validation.called
    /\ LET validationResult ==
               validateDocument(validation.ocrText, validation.documentType, 0)
       IN  validation' = [validation EXCEPT
                              !.called = TRUE,
                              !.result = validationResult,
                              !.verification = VerificationResult(validationResult)]
    /\ UNCHANGED <<documents, currentDocumentId, attempts, writer, response>>

ValidatorSpec == ValidatorInit /\ [][Validate]_vars

----------------------------------------------------------------------------
\* Properties.

AttemptsOf(id) == {a \in DOMAIN attempts : attempts[a].doc = id}

Done(a) == attempts[a].pc = "done"

\* C1: for every document id at most one pipeline execution (the attempt
\* started by submit or an attempt started by retry) is in flight at a time.
C1_AtMostOneInFlight ==
    \A id \in DOMAIN documents : Cardinality(InFlightFor(id)) <= 1

\* A retry request for the document arrived while it was pending.
RetriedWhilePending(id) ==
    \E a \in AttemptsOf(id) :
        attempts[a].route = "retry" /\ attempts[a].from = "pending"

\* Every field that holds a value was written by the attempt that wrote the status.
OneAttemptsResult(id) ==
    \A f \in Fields \ {"status"} :
        documents[id][f] \notin {NULL, <<"pending-verification">>}
            => writer[id][f] = writer[id].status

\* C2: if retry was issued while the document was pending, then once all the
\* attempts for the id have finished, the stored status, documentId, ipfsHash,
\* blockchainTxId and errorDetails were all written by the same attempt.
C2_NoMixOfTwoAttempts ==
    \A id \in DOMAIN documents :
        (RetriedWhilePending(id) /\ InFlightFor(id) = {}) => OneAttemptsResult(id)

\* This step is the retry route accepting a request for id.
RetryAccepted(id) ==
    /\ Len(attempts') = Len(attempts) + 1
    /\ attempts'[Len(attempts')].route = "retry"
    /\ attempts'[Len(attempts')].doc = id

\* C3: a terminal status (verified, invalid, error) changes only when a retry
\* request for the id is accepted, and then to pending; a pending status
\* changes only to a terminal one: no terminal status becomes another one.
C3_TerminalUntilRetry ==
    [][\A id \in (DOMAIN documents) \cap (DOMAIN documents') :
          /\ (documents[id].status \in Terminal
              /\ documents'[id].status # documents[id].status)
                => (documents'[id].status = "pending" /\ RetryAccepted(id))
          /\ (documents[id].status = "pending"
              /\ documents'[id].status # "pending")
                => documents'[id].status \in Terminal]_vars

\* C4: in every state a verified document has both ipfsHash and
\* blockchainTxId set.
C4_VerifiedHasBothReferences ==
    \A id \in DOMAIN documents :
        documents[id].status = "verified"
            => (documents[id].ipfsHash # NULL /\ documents[id].blockchainTxId # NULL)

\* A verify attempt and a retry attempt have each written verified, and the
\* document is verified.
C4_Witness ==
    \E id \in DOMAIN documents :
        /\ documents[id].status = "verified"
        /\ \E a, b \in AttemptsOf(id) :
              /\ attempts[a].route = "verify" /\ attempts[a].result = "verified"
              /\ attempts[b].route = "retry" /\ attempts[b].result = "verified"

\* C5: ipfsHash and blockchainTxId are set only if the status is verified.
C5_ReferencesOnlyWhenVerified ==
    \A id \in DOMAIN documents :
        (documents[id].ipfsHash # NULL \/ documents[id].blockchainTxId # NULL)
            => documents[id].status = "verified"

\* C6: errorDetails is set only if the status is invalid or error.
C6_ErrorDetailsOnlyWhenFailed ==
    \A id \in DOMAIN documents :
        documents[id].errorDetails # NULL
            => documents[id].status \in {"invalid", "error"}

\* C7: an attempt ended by an exception (processImage or OCR throwing, or any
\* other error during processing) ends in status error with errorDetails
\* set, never invalid; an attempt ends invalid only when validateDocument
\* itself returned reasons.
C7_ExceptionEndsInError ==
    \A a \in DOMAIN attempts :
        Done(a) =>
            /\ attempts[a].thrown # NULL
                 => (attempts[a].result = "error" /\ attempts[a].errorDetails # NULL)
            /\ attempts[a].result = "invalid"
                 => (/\ attempts[a].thrown = NULL
                     /\ Len(attempts[a].steps) > 0
                     /\ attempts[a].steps[Len(attempts[a].steps)] = "validateDocument")

\* Attempt a ends in this step because uploadToIpfs or storeOnBlockchain threw.
StoreOrAnchorFails(a) ==
    /\ InFlight(a)
    /\ attempts'[a].pc = "done"
    /\ attempts'[a].thrown \in {<<UploadToIpfsError>>, <<StoreOnBlockchainError>>}

\* C8: when uploadToIpfs fails, or it succeeds and storeOnBlockchain fails,
\* the attempt leaves the document in status error with errorDetails set, and
\* writes neither ipfsHash nor blockchainTxId.
C8_StoreOrAnchorFailureIsError ==
    [][\A a \in DOMAIN attempts :
          (StoreOrAnchorFails(a) /\ attempts[a].doc \in DOMAIN documents)
            => LET id == attempts[a].doc IN
               /\ documents'[id].status = "error"
               /\ documents'[id].errorDetails # NULL
               /\ documents'[id].ipfsHash = documents[id].ipfsHash
               /\ documents'[id].blockchainTxId = documents[id].blockchainTxId
               /\ writer'[id].status = a
               /\ writer'[id].ipfsHash # a
               /\ writer'[id].blockchainTxId # a]_vars

\* A verify attempt that had obtained an ipfsHash ended on a storeOnBlockchain
\* failure, and its document is in status error with no ipfsHash.
C8_Witness ==
    \E a \in DOMAIN attempts :
        /\ Done(a)
        /\ attempts[a].route = "verify"
        /\ attempts[a].thrown = <<StoreOnBlockchainError>>
        /\ attempts[a].ipfsHash # NULL
        /\ attempts[a].doc \in DOMAIN documents
        /\ writer[attempts[a].doc].status = a
        /\ documents[attempts[a].doc].status = "error"
        /\ documents[attempts[a].doc].ipfsHash = NULL

\* The calls of a pipeline run that reaches verified, in order.
FullPipeline ==
    <<"processImage", "performOcr", "validateDocument", "uploadToIpfs",
      "storeOnBlockchain">>

\* The calls made are a prefix of the pipeline, from extraction on.
RunsPipeline(a) ==
    /\ Len(attempts[a].steps) >= 1
    /\ Len(attempts[a].steps) <= Len(FullPipeline)
    /\ attempts[a].steps = SubSeq(FullPipeline, 1, Len(attempts[a].steps))
    /\ attempts[a].result = "verified" => attempts[a].steps = FullPipeline

\* C9: an attempt started by retry runs the full pipeline from extraction on,
\* as an initial attempt does: it ends verified only after extraction,
\* validation, store and anchor.
C9_RetryRunsFullPipeline ==
    \A a \in DOMAIN attempts :
        (attempts[a].route = "retry" /\ Done(a)) => RunsPipeline(a)

\* The latest attempt started by retry for the document (0: none).
LatestRetry(id) ==
    LET R == {a \in AttemptsOf(id) : attempts[a].route = "retry"}
    IN IF R = {} THEN 0 ELSE CHOOSE a \in R : \A b \in R : b <= a

\* C10: after a retry accepted for a document in error or invalid, the
\* document is pending with errorDetails cleared and then terminal with
\* errorDetails unset (verified) or exactly the failure reason of the retry's
\* attempt.
C10_RetryReplacesFailure ==
    \A id \in DOMAIN documents :
        LET r == LatestRetry(id) IN
        (r # 0 /\ attempts[r].from \in {"error", "invalid"}) =>
            /\ documents[id].status \in {"pending", "verified"}
                 => documents[id].errorDetails = NULL
            /\ documents[id].status \in {"invalid", "error"}
                 => (/\ writer[id].errorDetails = r
                     /\ documents[id].errorDetails = attempts[r].errorDetails)

\* C11: a retry request for an id that is not in the repository (never
\* created, or deleted) is answered NotFound (404), starts no attempt and
\* leaves the repository as it was; no attempt is ever started for an id that
\* is not in the repository.
C11_RetryUnknownIdIsNotFound ==
    [][/\ \A id \in 1..MaxDocs :
             (/\ id \notin DOMAIN documents
              /\ response' # response
              /\ response'.route = "retry"
              /\ response'.documentId = id)
             => /\ response'.code = 404
                /\ attempts' = attempts
                /\ documents' = documents
                /\ currentDocumentId' = currentDocumentId
       /\ Len(attempts') > Len(attempts)
             => attempts'[Len(attempts')].doc \in DOMAIN documents']_vars

\* A retry of a document that was created and then deleted got its 404.
C11_Witness ==
    /\ response.route = "retry"
    /\ response.code = 404
    /\ response.documentId < currentDocumentId
    /\ response.documentId \notin DOMAIN documents
    /\ AttemptsOf(response.documentId) # {}

\* C12: submission does not block: the request creates the document with
\* status pending, no identifier (the placeholder of the not-null column), no
\* ipfsHash, no blockchainTxId and no errorDetails, and the caller has the
\* response with the new id before any pipeline step of the document has run.
C12_SubmitIsNonBlocking ==
    [][currentDocumentId' # currentDocumentId =>
          LET id == currentDocumentId IN
          /\ id \in DOMAIN documents'
          /\ documents'[id].status = "pending"
          /\ documents'[id].documentId = PendingDocumentId
          /\ documents'[id].ipfsHash = NULL
          /\ documents'[id].blockchainTxId = NULL
          /\ documents'[id].errorDetails = NULL
          /\ response' = [route |-> "verify", code |-> 200, documentId |-> id]
          /\ \E a \in DOMAIN attempts' : attempts'[a].doc = id
          /\ \A a \in DOMAIN attempts' :
                attempts'[a].doc = id =>
                    attempts'[a].steps = <<>> /\ attempts'[a].pc = "processImage"]_vars

\* The caller holds the id of a pending document whose pipeline has not
\* taken a step yet.
C12_Witness ==
    /\ response.route = "verify"
    /\ response.code = 200
    /\ response.documentId \in DOMAIN documents
    /\ documents[response.documentId].status = "pending"
    /\ documents[response.documentId].documentId = PendingDocumentId
    /\ \E a \in AttemptsOf(response.documentId) :
          attempts[a].route = "verify" /\ attempts[a].steps = <<>>

\* The attempt a processes a submission whose text holds an identifier of
\* the submitted document type.
HasToken(a) ==
    /\ a \in DOMAIN attempts
    /\ attempts[a].route = "verify"
    /\ extractDocumentId(performOcr(attempts[a].file),
                         attempts[a].documentType) # NULL

\* No retry and no delete has touched the document of attempt a.
Undisturbed(a) ==
    /\ attempts[a].doc \in DOMAIN documents
    /\ AttemptsOf(attempts[a].doc) = {a}

\* C13: a submission whose extracted text holds an identifier of its document
\* type (expired or not) eventually ends its processing, and when no external
\* call failed and no retry or delete intervened the document is then
\* verified with ipfsHash and blockchainTxId set; validateDocument accepts
\* such a text for every document type.
C13_TokenTextReachesVerified ==
    /\ \A a \in 1..MaxAttempts :
          HasToken(a) ~> (a \in DOMAIN attempts /\ Done(a))
    /\ [](\A a \in DOMAIN attempts :
             (HasToken(a) /\ Done(a) /\ attempts[a].thrown = NULL /\ Undisturbed(a))
             => /\ documents[attempts[a].doc].status = "verified"
                /\ documents[attempts[a].doc].ipfsHash # NULL
                /\ documents[attempts[a].doc].blockchainTxId # NULL)
    /\ [](\A t \in DocTypes, text \in Texts :
             (text.len >= MinOcrLength /\ extractDocumentId(text, t) # NULL)
             => validateDocument(text, t, 0).isValid)

\* A submission with an identifier in its text has run to the end, nothing
\* failed, nobody retried or deleted, and the document is verified.
C13_Witness ==
    \E a \in DOMAIN attempts :
        /\ HasToken(a) /\ Done(a) /\ attempts[a].thrown = NULL /\ Undisturbed(a)
        /\ documents[attempts[a].doc].status = "verified"
        /\ documents[attempts[a].doc].blockchainTxId # NULL

\* C14: every started attempt leaves its document in a terminal status,
\* whatever fails on the way (extraction, validation, store, anchor or a
\* repository write): a document that still exists and has no attempt in
\* flight is verified, invalid or error, never pending.
C14_EndedAttemptsLeaveTerminal ==
    \A id \in DOMAIN documents :
        InFlightFor(id) = {} => documents[id].status \in Terminal

\* The text detail, a sequence of pieces, holds the piece given.
Contains(detail, piece) == \E i \in DOMAIN detail : detail[i] = piece

\* The text handed to validateDocument is shorter than the threshold.
ShortTextValidated ==
    validation.called /\ validation.ocrText.len < MinOcrLength

C16_MissingIdentifierIsInvalid ==
    (/\ validation.called
     /\ validation.ocrText.len >= MinOcrLength
     /\ extractDocumentId(validation.ocrText, validation.documentType) = NULL)
    => /\ ~validation.result.isValid
       /\ validation.result.documentId = NULL
       /\ ~validation.verification.isValid

\* C17: a text whose expiry date lies in the past is reported invalid
\* (reason "document expired").
C17_ExpiredIsInvalid ==
    (/\ validation.called
     /\ validation.ocrText.expiry = "past")
    => /\ ~validation.result.isValid
       /\ validation.result.reasons # <<>>

\* The defects the checks of validateDocument look for in a text.
Defects(ocrText, documentType) ==
    {d \in {"length", "identifier", "expired", "phrases"} :
        \/ d = "length" /\ ocrText.len < MinOcrLength
        \/ d = "identifier" /\ extractDocumentId(ocrText, documentType) = NULL
        \/ d = "expired" /\ ocrText.expiry = "past"
        \/ d = "phrases" /\ documentType \notin ocrText.phrases}

\* C18: the validator reports valid exactly when no check found a defect,
\* and it returns the reasons of all the defects together, one per defect,
\* not only the first.
C18_ValidIffNoDefectAllReported ==
    validation.called =>
        LET defects == Defects(validation.ocrText, validation.documentType) IN
        /\ validation.result.isValid <=> defects = {}
        /\ Len(validation.result.reasons) = Cardinality(defects)

\* C19: the documentId of a verified document is the token its document
\* type's pattern extracts from the document's own text, after the first
\* attempt and after any retry.
C19_VerifiedIdIsExtractedToken ==
    \A id \in DOMAIN documents :
        documents[id].status = "verified" =>
            \E a \in AttemptsOf(id) :
                /\ attempts[a].route = "verify"
                /\ documents[id].documentId # NULL
                /\ documents[id].documentId =
                       extractDocumentId(performOcr(attempts[a].file),
                                         documents[id].documentType)

\* C20: the documentId of a document is absent (the placeholder) until an
\* attempt whose validation succeeded sets it, and once set no later
\* operation, a retry included, changes it to another value.
C20_DocumentIdSetOnce ==
    [][\A id \in DOMAIN documents \cap DOMAIN documents' :
          /\ documents[id].documentId # PendingDocumentId
                => documents'[id].documentId = documents[id].documentId
          /\ (/\ documents[id].documentId = PendingDocumentId
              /\ documents'[id].documentId # PendingDocumentId)
                => \E a \in AttemptsOf(id) :
                      /\ writer'[id].documentId = a
                      /\ \E i \in DOMAIN attempts[a].steps :
                            attempts[a].steps[i] = "validateDocument"]_vars

\* The documents of the user that have one of the statuses given.
WithStatus(userId, statuses) ==
    {id \in DOMAIN documents :
        documents[id].userId = userId /\ documents[id].status \in statuses}

\* C21: at every moment the stats of the user count the verified documents
\* in verifiedCount and the pending, invalid and error documents in
\* pendingFailedCount, so that the two counts cover every document of the
\* user.
C21_StatsAccountForEveryDocument ==
    LET stats == getDocumentStats(documents, 1) IN
    /\ stats.verifiedCount = Cardinality(WithStatus(1, {"verified"}))
    /\ stats.pendingFailedCount =
           Cardinality(WithStatus(1, {"pending", "invalid", "error"}))
    /\ stats.verifiedCount + stats.pendingFailedCount =
           Cardinality(WithStatus(1, {"pending"} \cup Terminal))

\* C22: a GET of a document by id changes nothing in the repository and
\* returns the record exactly as it is stored at that moment (404 when there
\* is none), at every point between the writes of the background processing.
C22_GetByIdReadsOnly ==
    [][\A id \in 1..MaxDocs :
          (/\ response' # response
           /\ response'.route = "get"
           /\ response'.documentId = id)
          => /\ documents' = documents
             /\ currentDocumentId' = currentDocumentId
             /\ attempts' = attempts
             /\ IF id \in DOMAIN documents
                THEN response'.code = 200 /\ response'.body = documents[id]
                ELSE response'.code = 404]_vars

\* A GET returned the record that a finished background processing wrote.
C22_Witness ==
    /\ response.route = "get"
    /\ response.code = 200
    /\ response.documentId \in DOMAIN documents
    /\ response.body = documents[response.documentId]
    /\ response.body.status \in Terminal
    /\ \E a \in AttemptsOf(response.documentId) : Done(a)

\* C23: a delete of an existing document removes the record entirely: the
\* id is gone from getDocument, from the user's list and from the stats, the
\* other records are untouched, and the id stays absent, so that a later
\* delete (like a later retry or get) finds nothing; a delete of an unknown
\* id is answered 404 and changes nothing.
C23_DeleteRemovesEntirely ==
    [][\A id \in 1..MaxDocs :
          /\ (/\ response' # response
              /\ response'.route = "delete"
              /\ response'.documentId = id)
             => IF id \in DOMAIN documents
                THEN /\ response'.code = 200
                     /\ getDocument(documents', id) = NULL
                     /\ \A d \in getDocuments(documents', 1) : d.id # id
                     /\ getDocumentStats(documents', 1).storageUsed
                            = getDocumentStats(documents, 1).storageUsed - 5
                     /\ \A other \in DOMAIN documents \ {id} :
                           getDocument(documents', other) = documents[other]
                ELSE /\ response'.code = 404
                     /\ documents' = documents
                     /\ attempts' = attempts
                     /\ currentDocumentId' = currentDocumentId
          /\ (id < currentDocumentId /\ getDocument(documents, id) = NULL)
             => getDocument(documents', id) = NULL]_vars

\* A document was created and deleted, and a second delete of it got 404.
C23_Witness ==
    /\ response.route = "delete"
    /\ response.code = 404
    /\ response.documentId < currentDocumentId
    /\ getDocument(documents, response.documentId) = NULL

\* C24: the status, the content address and the anchor reference of a
\* document are only ever written by the server's own verification and
\* storage, never taken from a request (a direct status update, or a record
\* created from fields the client supplies).
C24_OnlyThePipelineWritesStatus ==
    \A id \in DOMAIN documents :
        \A f \in OwnedFields : writer[id][f] = "pipeline"

\* C25: when an attempt has ended, on whichever path (verified, invalid,
\* error from extraction, store or anchor), neither the uploaded temporary
\* file nor the processed copy of it is left on disk.
C25_TemporaryFilesReleased ==
    \A a \in DOMAIN attempts :
        Done(a) => ~attempts[a].upload /\ ~attempts[a].processed

\* C26: a submission without a file or without a document type is answered
\* with an error (400) at once, creates no record and starts no attempt; a
\* failure after the record was created never produces a response: the step
\* that ends the attempt writes the failure to the record's status and
\* errorDetails only.
C26_MalformedRejectedFailuresInRecord ==
    [][/\ (response' # response /\ "missing" \in DOMAIN response')
          => /\ response'.route = "verify"
             /\ response'.code = 400
             /\ documents' = documents
             /\ currentDocumentId' = currentDocumentId
             /\ attempts' = attempts
       /\ \A a \in DOMAIN attempts :
             (InFlight(a) /\ attempts'[a].pc = "done"
                 /\ attempts'[a].result \in {"invalid", "error"})
             => /\ response' = response
                /\ attempts'[a].errorDetails # NULL
                /\ attempts[a].doc \in DOMAIN documents
                   => /\ documents'[attempts[a].doc].status = attempts'[a].result
                      /\ documents'[attempts[a].doc].errorDetails
                             = attempts'[a].errorDetails]_vars

\* A submission without document type was rejected: nothing was created and
\* nothing was started.
C26_Witness ==
    /\ response.route = "verify"
    /\ response.code = 400
    /\ response.missing = "documentType"
    /\ documents = <<>>
    /\ attempts = <<>>
    /\ currentDocumentId = 1

\* C27: ids are unique and strictly increasing in creation order, over any
\* sequence of creations and deletions (a deleted record's id is not handed
\* out again), and a record's id, userId and documentType stay as created.
\* Every creation by the verify route appended one attempt, so the attempts
\* in order name the ids in creation order.
C27_IdsIncreaseAndIdentityIsFixed ==
    [][/\ \A a, b \in DOMAIN attempts' :
             (a < b /\ attempts'[a].route = "verify" /\ attempts'[b].route = "verify")
             => attempts'[a].doc < attempts'[b].doc
       /\ \A id \in DOMAIN documents' :
             /\ documents'[id].id = id
             /\ id \in DOMAIN documents
                => /\ documents'[id].id = documents[id].id
                   /\ documents'[id].userId = documents[id].userId
                   /\ documents'[id].documentType = documents[id].documentType]_vars

\* The second record was created after the first one was deleted: the last
\* response is the creation of id 2 and id 1 is gone.
C27_Witness ==
    /\ response.route = "verify"
    /\ response.code = 200
    /\ response.documentId = 2
    /\ 1 \notin DOMAIN documents
    /\ 2 \in DOMAIN documents

\* The attempt has made the call.
Called(a, call) ==
    \E i \in DOMAIN attempts[a].steps : attempts[a].steps[i] = call

\* C28: within one attempt the calls run in the order extract, validate,
\* store, anchor, each at most once; the store (uploadToIpfs) is called only
\* after the validator returned valid; the anchor (storeOnBlockchain) is
\* called only after the store returned the address the anchor is given; for
\* an invalid document neither is called and the attempt ends invalid with
\* errorDetails the validation reasons joined by comma.
C28_StepsInOrder ==
    \A a \in DOMAIN attempts :
        LET steps == attempts[a].steps IN
        /\ Len(steps) <= Len(FullPipeline)
        /\ steps = SubSeq(FullPipeline, 1, Len(steps))
        /\ Called(a, "storeOnBlockchain")
           => /\ Called(a, "uploadToIpfs")
              /\ attempts[a].ipfsHash = IpfsHashOf(a)
        /\ Called(a, "validateDocument")
           => LET validationResult ==
                      validateDocument(performOcr(attempts[a].file),
                                       attempts[a].documentType, a)
              IN /\ Called(a, "uploadToIpfs") => validationResult.isValid
                 /\ ~validationResult.isValid
                    => /\ ~Called(a, "uploadToIpfs")
                       /\ ~Called(a, "storeOnBlockchain")
                       /\ attempts[a].result = "invalid"
                       /\ attempts[a].errorDetails = Join(validationResult.reasons)

\* C29: when a document is deleted while an attempt for it (started by the
\* verify route or by retry) is in flight, the writes the attempt makes
\* afterwards do not bring the record back: the id stays absent from
\* getDocument and from the user's list, and the step that ends the attempt
\* changes neither the documents nor the stats.
C29_WriteAfterDeleteCreatesNothing ==
    [][\A a \in DOMAIN attempts :
          LET id == attempts[a].doc IN
          getDocument(documents, id) = NULL
          => /\ id \notin DOMAIN documents'
             /\ getDocument(documents', id) = NULL
             /\ \A d \in getDocuments(documents', 1) : d.id # id
             /\ (InFlight(a) /\ attempts'[a] # attempts[a])
                => /\ documents' = documents
                   /\ getDocumentStats(documents', 1)
                          = getDocumentStats(documents, 1)]_vars

\* The document was deleted while an attempt of the verify route and an
\* attempt of the retry route were both about to make their terminal write.
C29_Witness ==
    /\ response = [route |-> "delete", code |-> 200, documentId |-> 1]
    /\ 1 \notin DOMAIN documents
    /\ \E a, b \in AttemptsOf(1) :
          /\ attempts[a].route = "verify"
          /\ attempts[b].route = "retry"
          /\ attempts[a].pc = "storeOnBlockchain"
          /\ attempts[b].pc = "storeOnBlockchain"

\* C30: the submission route with an uploaded file persists a record with
\* verificationStatus VERIFIED only when the verification was valid and
\* storeOnBlockchain succeeded: no record it creates is VERIFIED without an
\* ipfsHash.
C30_VerifiedRecordHasIpfsHash ==
    [][\A id \in DOMAIN documents' \ DOMAIN documents :
          (/\ response'.route = "create-file"
           /\ documents'[id].verificationStatus = "VERIFIED")
          => /\ documents'[id].ipfsHash # NULL
             /\ documents'[id].blockchainRef # NULL]_vars

====
